---- MODULE Spec2Model ----
(***************************************************************************)
(* Model of the upload pipeline of web-app/src/app/api/extract-text/       *)
(* route.ts: POST validates an upload, writes it to a temp file, runs the  *)
(* extraction worker on it, runs the anonymization worker on the extracted *)
(* text, deletes the temp file and answers.                                *)
(*                                                                         *)
(* Reqs requests are handled concurrently by one Node.js event loop. An    *)
(* action is one run-to-completion segment of a handler: from the event    *)
(* that resumes it (a filesystem completion, a child process event) to the *)
(* next await.  The filesystem (fs) and the clock (now) are the only state *)
(* shared between requests.                                                *)
(*                                                                         *)
(* The upload page, web-app/src/app/page.tsx, is modelled beside it        *)
(* (SpecPage): the user drops files, each drop starts an upload, and the   *)
(* responses arrive in any order.                                          *)
(***************************************************************************)
EXTENDS Integers, Sequences, FiniteSets, TLC

\* ------------------------------------------------------------------ bounds
\* Requests in flight.
NReq == 2
\* Date.now() takes the values 0..MaxNow.
MaxNow == 1
\* Longest stdout a worker writes, in characters.
MaxLen == 2
\* Most stderr chunks a worker writes.
MaxStderr == 1
\* Files the user drops on the upload page.
MaxDrops == 2

Reqs == 1..NReq

\* ------------------------------------------------------- program constants
\* route.ts:17
PdfType == "application/pdf"
\* route.ts:24
MaxFileSize == 5 * 1024 * 1024
\* The exit code of a process ended by a signal: `code` is null (route.ts:90).
NullCode == -1
\* The exit code `close` carries after a failed spawn: a negative errno.
SpawnErrno == -2

\* ------------------------------------------------------------------ inputs
\* The declared types of .doc and .docx files.
DocType == "application/msword"
DocxType == "application/vnd.openxmlformats-officedocument.wordprocessingml.document"
Types == {PdfType, DocType, DocxType}
Sizes == {MaxFileSize, MaxFileSize + 1}
Names == {"cv.pdf", "b.pdf"}
Alphabet == {"a", " "}
Whitespace == {" "}
Texts == UNION {[1..n -> Alphabet] : n \in 0..MaxLen}
Chunks == Texts \ {<<>>}
StderrChunk == "corrupt PDF"
ExitCodes == {0, 1, NullCode}

NoFile == <<>>
NoPath == <<>>
NoText == <<"undefined">>
NoError == [kind |-> "none", detail |-> <<>>]
NoResponse == [status |-> 0]
\* What a worker has read of its file: nothing yet, or <<the bytes>>.
Unread == <<>>

Paths == (0..MaxNow) \X Names

\* The upload of request r: the bytes are tagged with the request that sent them.
Uploads(r) ==
    {[present |-> FALSE, type |-> "", size |-> 0, name |-> "", content |-> <<r>>]}
    \cup [present : {TRUE}, type : Types, size : Sizes, name : Names, content : {<<r>>}]

VARIABLES
    now,              \* the latest value Date.now() returned
    fs,               \* the temp directory: path -> bytes, or NoFile
    pc,               \* where each POST is suspended
    file,             \* formData.get('file')
    tempFilePath,     \* route.ts:32
    python,           \* the extraction child process and its closure (route.ts:77-80)
    anon,             \* the anonymization child process and its closure (route.ts:110-113)
    extractedText,    \* route.ts:37
    preprocessedText, \* route.ts:40
    caught,           \* the error the catch block at route.ts:59 holds
    response,         \* the NextResponse returned
    log,              \* what each request wrote to the console
    calls             \* how often each request called writeFile, unlink and spawn

routeVars == <<now, fs, pc, file, tempFilePath, python, anon, extractedText,
               preprocessedText, caught, response, log, calls>>

\* The upload page (page.tsx). The k-th call of onDrop carries file k.
Drops == 1..MaxDrops
\* The texts a response carries.
PageTexts == {"A", "B"}
\* uploadedFile before the first drop (page.tsx:8).
NoUpload == 0

VARIABLES
    uploadedFile,       \* page.tsx:8 (the number of the file, or NoUpload)
    isProcessing,       \* page.tsx:9
    extractedTextState, \* page.tsx:10: the page's extractedText
    uploads,            \* each handleFileUpload call: where it is suspended
    drops,              \* the onDrop calls so far
    alerts              \* what alert() showed, in order

pageVars == <<uploadedFile, isProcessing, extractedTextState, uploads, drops, alerts>>

vars == <<routeVars, pageVars>>

\* ------------------------------------------------------------ pure helpers
RECURSIVE TrimStart(_)
TrimStart(s) ==
    IF s # <<>> /\ Head(s) \in Whitespace THEN TrimStart(Tail(s)) ELSE s

RECURSIVE TrimEnd(_)
TrimEnd(s) ==
    IF s # <<>> /\ s[Len(s)] \in Whitespace
    THEN TrimEnd(SubSeq(s, 1, Len(s) - 1))
    ELSE s

\* Mutant of Trim: only the leading whitespace is removed.
TrimLeadingOnly(s) == TrimStart(s)

\* String.prototype.trim
Trim(s) == TrimEnd(TrimStart(s))

\* Mutant of Validate: the size check rejects a file of exactly the limit.
ValidateOffByOne(f) ==
    IF ~f.present
    THEN [status |-> 400, message |-> "No file provided"]
    ELSE IF f.type # PdfType
    THEN [status |-> 400, message |-> "Invalid file type. Only PDF files are allowed."]
    ELSE IF f.size >= MaxFileSize
    THEN [status |-> 400, message |-> "File too large. Maximum size is 5MB."]
    ELSE NoResponse

\* Mutant of Validate: the declared type is not checked.
ValidateNoTypeCheck(f) ==
    IF ~f.present
    THEN [status |-> 400, message |-> "No file provided"]
    ELSE IF f.size > MaxFileSize
    THEN [status |-> 400, message |-> "File too large. Maximum size is 5MB."]
    ELSE NoResponse

\* route.ts:12-28: the response of a rejected upload, NoResponse when it passes.
Validate(f) ==
    IF ~f.present
    THEN [status |-> 400, message |-> "No file provided"]
    ELSE IF f.type # PdfType
    THEN [status |-> 400, message |-> "Invalid file type. Only PDF files are allowed."]
    ELSE IF f.size > MaxFileSize
    THEN [status |-> 400, message |-> "File too large. Maximum size is 5MB."]
    ELSE NoResponse

\* route.ts:32
TempPath(t, name) == <<t, name>>

\* route.ts:67-69
ErrorResponse == [status |-> 500, message |-> "Error processing file. Please try again."]

\* route.ts:52-57
SuccessResponse(text, raw, f) ==
    [status |-> 200, text |-> text, rawText |-> raw, filename |-> f.name, size |-> f.size]

\* A child process and the closure of its handlers. st: "none" (not spawned),
\* "throw" (spawn threw), "running", "errored" (`error` emitted), "closed"
\* (`close` emitted, with exit code `code`).
NoProc == [st |-> "none", output |-> <<>>, error |-> <<>>, seen |-> Unread, code |-> 0]
\* A process that emitted `close`: no handler runs again, its closure is dead.
Closed(code) == [NoProc EXCEPT !.st = "closed", !.code = code]
\* Calls made so far, and `written`: the writeFile calls that succeeded.
NoCalls == [writeFile |-> 0, written |-> 0, unlink |-> 0, spawnExtract |-> 0, spawnAnon |-> 0]

\* A handleFileUpload call. st: "none" (not called), "fetch" (awaiting fetch),
\* "json" (awaiting response.json()), "done"; ok: response.ok; text: the text
\* its response carried ("" when it carried none).
NoFetch == [st |-> "none", ok |-> FALSE, text |-> ""]

Init ==
    /\ now = 0
    /\ fs = [p \in Paths |-> NoFile]
    /\ pc = [r \in Reqs |-> "start"]
    /\ file = [r \in Reqs |-> CHOOSE f \in Uploads(r) : ~f.present]
    /\ tempFilePath = [r \in Reqs |-> NoPath]
    /\ python = [r \in Reqs |-> NoProc]
    /\ anon = [r \in Reqs |-> NoProc]
    /\ extractedText = [r \in Reqs |-> NoText]
    /\ preprocessedText = [r \in Reqs |-> NoText]
    /\ caught = [r \in Reqs |-> NoError]
    /\ response = [r \in Reqs |-> NoResponse]
    /\ log = [r \in Reqs |-> {}]
    /\ calls = [r \in Reqs |-> NoCalls]
    /\ uploadedFile = NoUpload
    /\ isProcessing = FALSE
    /\ extractedTextState = ""
    /\ uploads = [k \in Drops |-> NoFetch]
    /\ drops = 0
    /\ alerts = <<>>

Entry(level, msg, detail) == [level |-> level, msg |-> msg, detail |-> detail]
Err(kind, detail) == [kind |-> kind, detail |-> detail]

\* What console.error prints of an Error: its message.
Message(err) == <<err.kind>> \o err.detail

\* route.ts:59-61: the inner catch takes the error and calls unlink.
InnerCatch(r, err, newLog, newCalls) ==
    /\ caught' = [caught EXCEPT ![r] = err]
    /\ log' = [log EXCEPT ![r] = newLog]
    /\ calls' = [calls EXCEPT ![r] = [newCalls EXCEPT !.unlink = @ + 1]]
    /\ pc' = [pc EXCEPT ![r] = "unlink61"]

\* Mutant of OuterCatch: the error's message is returned to the caller.
OuterCatchLeaky(r, err, newLog) ==
    /\ caught' = [caught EXCEPT ![r] = err]
    /\ log' = [log EXCEPT ![r] =
                 newLog \cup {Entry("error", "Error processing file:", Message(err))}]
    /\ response' = [response EXCEPT ![r] = [status |-> 500, message |-> err.kind]]
    /\ pc' = [pc EXCEPT ![r] = "done"]

\* route.ts:65-70: the outer catch logs the error and answers 500.
OuterCatch(r, err, newLog) ==
    /\ caught' = [caught EXCEPT ![r] = err]
    /\ log' = [log EXCEPT ![r] =
                 newLog \cup {Entry("error", "Error processing file:", Message(err))}]
    /\ response' = [response EXCEPT ![r] = ErrorResponse]
    /\ pc' = [pc EXCEPT ![r] = "done"]

\* route.ts:8-31: the request arrives; formData() parses it (or throws), the
\* upload is validated and, when valid, file.arrayBuffer() is awaited.
Receive(r, parsed, f) ==
    /\ pc[r] = "start"
    /\ IF ~parsed
       THEN /\ OuterCatch(r, Err("formData", <<>>), log[r])
            /\ UNCHANGED file
       ELSE /\ file' = [file EXCEPT ![r] = f]
            /\ IF Validate(f) # NoResponse
               THEN /\ response' = [response EXCEPT ![r] = Validate(f)]
                    /\ pc' = [pc EXCEPT ![r] = "done"]
               ELSE /\ pc' = [pc EXCEPT ![r] = "arrayBuffer"]
                    /\ UNCHANGED response
            /\ UNCHANGED <<caught, log>>
    /\ UNCHANGED <<now, fs, tempFilePath, python, anon, extractedText,
                   preprocessedText, calls>>
    /\ UNCHANGED pageVars

\* route.ts:31-33: the buffer is ready; the temp path is computed from the clock
\* and the upload's name, and writeFile is called. Date.now() returns t, a
\* millisecond not before the one it returned last.
CreateTemp(r, t) ==
    /\ pc[r] = "arrayBuffer"
    /\ t >= now
    /\ now' = t
    /\ tempFilePath' = [tempFilePath EXCEPT ![r] = TempPath(t, file[r].name)]
    /\ calls' = [calls EXCEPT ![r].writeFile = @ + 1]
    /\ pc' = [pc EXCEPT ![r] = "writeFile"]
    /\ UNCHANGED <<fs, file, python, anon, extractedText, preprocessedText,
                   caught, response, log>>
    /\ UNCHANGED pageVars

\* Mutant of WriteFileFails: the write is inside the try block, so its failure
\* runs the inner catch and its unlink.
WriteFileFailsInsideTry(r) ==
    /\ pc[r] = "writeFile"
    /\ InnerCatch(r, Err("writeFile", <<>>), log[r], calls[r])
    /\ UNCHANGED <<now, fs, file, tempFilePath, python, anon, extractedText,
                   preprocessedText, response>>
    /\ UNCHANGED pageVars

\* route.ts:33: writeFile fails (the disk is full, the name is no valid file
\* name); the rejection reaches the outer catch.
WriteFileFails(r) ==
    /\ pc[r] = "writeFile"
    /\ OuterCatch(r, Err("writeFile", <<>>), log[r])
    /\ UNCHANGED <<now, fs, file, tempFilePath, python, anon, extractedText,
                   preprocessedText, calls>>
    /\ UNCHANGED pageVars

\* route.ts:33-37 and 73-77: writeFile has written the bytes; extractTextFromFile
\* spawns the extraction worker. `started` is FALSE when spawn throws (the
\* promise executor then rejects, and the inner catch runs).
WriteFileDone(r, started) ==
    /\ pc[r] = "writeFile"
    /\ fs' = [fs EXCEPT ![tempFilePath[r]] = file[r].content]
    /\ LET c == [calls[r] EXCEPT !.written = @ + 1, !.spawnExtract = @ + 1] IN
       IF started
       THEN /\ python' = [python EXCEPT ![r].st = "running"]
            /\ calls' = [calls EXCEPT ![r] = c]
            /\ pc' = [pc EXCEPT ![r] = "extract"]
            /\ UNCHANGED <<caught, log>>
       ELSE /\ python' = [python EXCEPT ![r].st = "throw"]
            /\ InnerCatch(r, Err("spawn", <<>>), log[r], c)
    /\ UNCHANGED <<now, file, tempFilePath, anon, extractedText, preprocessedText,
                   response>>
    /\ UNCHANGED pageVars

\* How console.log prints an exit code.
CodeName(code) ==
    IF code = 0 THEN "0" ELSE IF code = 1 THEN "1"
    ELSE IF code = NullCode THEN "null" ELSE "errno"

\* route.ts:39-40 and 104-110: POST goes on with the extracted text;
\* preprocessText logs and spawns the anonymization worker with the text as its
\* argument. `started` is FALSE when spawn throws (the text is longer than the
\* system's argument limit, or holds a NUL): the executor then rejects.
CallPreprocess(r, text, started) ==
    LET l == log[r] \cup {Entry("log", "Starting preprocessing...", <<>>)}
        c == [calls[r] EXCEPT !.spawnAnon = @ + 1]
    IN  /\ extractedText' = [extractedText EXCEPT ![r] = text]
        /\ IF started
           THEN /\ anon' = [anon EXCEPT ![r].st = "running"]
                /\ log' = [log EXCEPT ![r] = l]
                /\ calls' = [calls EXCEPT ![r] = c]
                /\ pc' = [pc EXCEPT ![r] = "preprocess"]
                /\ UNCHANGED caught
           ELSE /\ anon' = [anon EXCEPT ![r].st = "throw"]
                /\ InnerCatch(r, Err("spawn", <<>>), l, c)

\* The extraction worker reads the file it was given the path of.
ExtractRead(r) ==
    /\ python[r].st = "running"
    /\ python[r].seen = Unread
    /\ python' = [python EXCEPT ![r].seen = <<fs[tempFilePath[r]]>>]
    /\ UNCHANGED <<now, fs, pc, file, tempFilePath, anon, extractedText,
                   preprocessedText, caught, response, log, calls>>
    /\ UNCHANGED pageVars

\* route.ts:82-84
ExtractStdout(r, chunk) ==
    /\ python[r].st = "running"
    /\ Len(python[r].output) + Len(chunk) <= MaxLen
    /\ python' = [python EXCEPT ![r].output = @ \o chunk]
    /\ UNCHANGED <<now, fs, pc, file, tempFilePath, anon, extractedText,
                   preprocessedText, caught, response, log, calls>>
    /\ UNCHANGED pageVars

\* route.ts:86-88
ExtractStderr(r) ==
    /\ python[r].st = "running"
    /\ Len(python[r].error) < MaxStderr
    /\ python' = [python EXCEPT ![r].error = Append(@, StderrChunk)]
    /\ UNCHANGED <<now, fs, pc, file, tempFilePath, anon, extractedText,
                   preprocessedText, caught, response, log, calls>>
    /\ UNCHANGED pageVars

\* route.ts:98-100: the process could not be started; the promise rejects and
\* the inner catch runs.
ExtractError(r) ==
    /\ python[r] = [NoProc EXCEPT !.st = "running"]
    /\ python' = [python EXCEPT ![r].st = "errored"]
    /\ InnerCatch(r, Err("Failed to start Python process: ", <<"ENOENT">>),
                  log[r], calls[r])
    /\ UNCHANGED <<now, fs, file, tempFilePath, anon, extractedText,
                   preprocessedText, response>>
    /\ UNCHANGED pageVars

\* Mutant of ExtractSucceeded: every close counts as a success.
ExtractSucceededAlways(code) == TRUE

\* Mutant of ExtractSucceeded: only exit code 1 counts as a failure.
ExtractSucceededUnlessOne(code) == code # 1

\* route.ts:91
ExtractSucceeded(code) == code = 0

\* Mutant of ExtractClose: the handler has no else branch, so a close with
\* another code than 0 leaves the promise pending.
ExtractCloseNoReject(r, code, started) ==
    /\ \/ python[r].st = "running" /\ code \in ExitCodes
       \/ python[r].st = "errored" /\ code = SpawnErrno
    /\ python' = [python EXCEPT ![r] = Closed(code)]
    /\ IF python[r].st = "running" /\ ExtractSucceeded(code)
       THEN CallPreprocess(r, Trim(python[r].output), started)
       ELSE UNCHANGED <<pc, anon, extractedText, caught, log, calls>>
    /\ UNCHANGED <<now, fs, file, tempFilePath, preprocessedText, response>>
    /\ UNCHANGED pageVars

\* route.ts:90-96: the process closed. A promise the error handler has
\* rejected stays rejected.
ExtractClose(r, code, started) ==
    /\ \/ python[r].st = "running" /\ code \in ExitCodes
       \/ python[r].st = "errored" /\ code = SpawnErrno
    /\ python' = [python EXCEPT ![r] = Closed(code)]
    /\ IF python[r].st = "errored"
       THEN UNCHANGED <<pc, anon, extractedText, caught, log, calls>>
       ELSE IF ExtractSucceeded(code)
       THEN CallPreprocess(r, Trim(python[r].output), started)
       ELSE /\ InnerCatch(r, Err("Python script failed: ", python[r].error),
                          log[r], calls[r])
            /\ UNCHANGED <<anon, extractedText>>
    /\ UNCHANGED <<now, fs, file, tempFilePath, preprocessedText, response>>
    /\ UNCHANGED pageVars

\* route.ts:42-50: POST goes on with the preprocessed text, logs both texts and
\* calls unlink.
CallUnlink(r, text, newLog) ==
    /\ preprocessedText' = [preprocessedText EXCEPT ![r] = text]
    /\ log' = [log EXCEPT ![r] = newLog \cup
                 { Entry("log", "=== RAW EXTRACTED TEXT ===", extractedText[r]),
                   Entry("log", "=== ANONYMIZED TEXT ===", text) }]
    /\ calls' = [calls EXCEPT ![r].unlink = @ + 1]
    /\ pc' = [pc EXCEPT ![r] = "unlink50"]

\* route.ts:115-117
AnonStdout(r, chunk) ==
    /\ anon[r].st = "running"
    /\ Len(anon[r].output) + Len(chunk) <= MaxLen
    /\ anon' = [anon EXCEPT ![r].output = @ \o chunk]
    /\ UNCHANGED <<now, fs, pc, file, tempFilePath, python, extractedText,
                   preprocessedText, caught, response, log, calls>>
    /\ UNCHANGED pageVars

\* route.ts:119-124
AnonStderr(r) ==
    /\ anon[r].st = "running"
    /\ Len(anon[r].error) < MaxStderr
    /\ anon' = [anon EXCEPT ![r].error = Append(@, StderrChunk)]
    /\ log' = [log EXCEPT ![r] = @ \cup {Entry("log", "Python stderr:", <<StderrChunk>>)}]
    /\ UNCHANGED <<now, fs, pc, file, tempFilePath, python, extractedText,
                   preprocessedText, caught, response, calls>>
    /\ UNCHANGED pageVars

\* route.ts:138-142: the process could not be started; the promise resolves
\* with the original text.
AnonError(r) ==
    /\ anon[r] = [NoProc EXCEPT !.st = "running"]
    /\ anon' = [anon EXCEPT ![r].st = "errored"]
    /\ CallUnlink(r, extractedText[r],
                  log[r] \cup {Entry("warn", "Preprocessing error, using original text:",
                                     <<"ENOENT">>)})
    /\ UNCHANGED <<now, fs, file, tempFilePath, python, extractedText, caught,
                   response>>
    /\ UNCHANGED pageVars

\* Mutant of PreprocessValue: stdout is handed on untrimmed.
PreprocessValueNoTrim(code, output, text) ==
    IF code = 0 THEN output ELSE text

\* Mutant of PreprocessValue: a failed worker yields an empty text.
PreprocessValueEmptyFallback(code, output, text) ==
    IF code = 0 THEN Trim(output) ELSE <<>>

\* route.ts:128-135: what the close handler resolves the promise with.
PreprocessValue(code, output, text) ==
    IF code = 0 THEN Trim(output) ELSE text

\* Mutant of PreprocessLog: the fallback is not logged.
PreprocessLogNoWarn(code, error) ==
    {Entry("log", "Preprocessing completed with code: ", <<CodeName(code)>>)} \cup
    IF code = 0
    THEN {Entry("log", "Preprocessing successful", <<>>)}
    ELSE {}

\* route.ts:127-135: what the close handler logs.
PreprocessLog(code, error) ==
    {Entry("log", "Preprocessing completed with code: ", <<CodeName(code)>>)} \cup
    IF code = 0
    THEN {Entry("log", "Preprocessing successful", <<>>)}
    ELSE {Entry("warn", "Preprocessing failed, using original text:", error)}

\* route.ts:126-136: the process closed. The handler logs; a promise the error
\* handler has resolved keeps its value.
AnonClose(r, code) ==
    /\ \/ anon[r].st = "running" /\ code \in ExitCodes
       \/ anon[r].st = "errored" /\ code = SpawnErrno
    /\ anon' = [anon EXCEPT ![r] = Closed(code)]
    /\ IF anon[r].st = "errored"
       THEN /\ log' = [log EXCEPT ![r] = @ \cup PreprocessLog(code, anon[r].error)]
            /\ UNCHANGED <<pc, preprocessedText, calls>>
       ELSE CallUnlink(r, PreprocessValue(code, anon[r].output, extractedText[r]),
                       log[r] \cup PreprocessLog(code, anon[r].error))
    /\ UNCHANGED <<now, fs, file, tempFilePath, python, extractedText, caught,
                   response>>
    /\ UNCHANGED pageVars

\* fs.unlink on a path: it removes the file, or fails: the file is not there
\* (ENOENT), or `ok` is FALSE (EPERM, EBUSY, an I/O error).
Removes(path, ok) == ok /\ fs[path] # NoFile

\* route.ts:50-63: the unlink of the success path completed. Removed: POST
\* answers 200. Failed: the rejection is thrown inside the try block, so the
\* inner catch runs and calls unlink again.
Unlink50Done(r, ok) ==
    /\ pc[r] = "unlink50"
    /\ IF Removes(tempFilePath[r], ok)
       THEN /\ fs' = [fs EXCEPT ![tempFilePath[r]] = NoFile]
            /\ response' = [response EXCEPT ![r] =
                  SuccessResponse(preprocessedText[r], extractedText[r], file[r])]
            /\ pc' = [pc EXCEPT ![r] = "done"]
            /\ UNCHANGED <<caught, log, calls>>
       ELSE /\ InnerCatch(r, Err("unlink", <<>>), log[r], calls[r])
            /\ UNCHANGED <<fs, response>>
    /\ UNCHANGED <<now, file, tempFilePath, python, anon, extractedText,
                   preprocessedText>>
    /\ UNCHANGED pageVars

\* route.ts:61-70: the unlink of the inner catch completed. Removed: the caught
\* error is thrown again. Failed: the unlink's own error is thrown. The outer
\* catch answers 500.
Unlink61Done(r, ok) ==
    /\ pc[r] = "unlink61"
    /\ IF Removes(tempFilePath[r], ok)
       THEN /\ fs' = [fs EXCEPT ![tempFilePath[r]] = NoFile]
            /\ OuterCatch(r, caught[r], log[r])
       ELSE /\ OuterCatch(r, Err("unlink", <<>>), log[r])
            /\ UNCHANGED fs
    /\ UNCHANGED <<now, file, tempFilePath, python, anon, extractedText,
                   preprocessedText, calls>>
    /\ UNCHANGED pageVars

\* Everything request r can do.
Step(r) ==
    \/ \E parsed \in BOOLEAN, f \in Uploads(r) : Receive(r, parsed, f)
    \/ \E t \in 0..MaxNow : CreateTemp(r, t)
    \/ WriteFileFails(r)
    \/ \E started \in BOOLEAN : WriteFileDone(r, started)
    \/ ExtractRead(r)
    \/ \E chunk \in Chunks : ExtractStdout(r, chunk)
    \/ ExtractStderr(r)
    \/ ExtractError(r)
    \/ \E code \in ExitCodes \cup {SpawnErrno}, started \in BOOLEAN :
          ExtractClose(r, code, started)
    \/ \E chunk \in Chunks : AnonStdout(r, chunk)
    \/ AnonStderr(r)
    \/ AnonError(r)
    \/ \E code \in ExitCodes \cup {SpawnErrno} : AnonClose(r, code)
    \/ \E ok \in BOOLEAN : Unlink50Done(r, ok)
    \/ \E ok \in BOOLEAN : Unlink61Done(r, ok)

Next == \E r \in Reqs : Step(r)

Spec == Init /\ [][Next]_vars

\* One request, seen on its own. What a request does depends on the others only
\* through the outcome of its unlink calls and through what its extraction
\* worker reads; here unlink may fail for any reason (ok = FALSE), so every
\* course a request takes among concurrent ones is a course of request 1 here.
NextOne == Step(1)

SpecOne == Init /\ [][NextOne]_vars

\* One request whose pending events all arrive: every filesystem operation
\* completes and every spawned worker emits `error` or `close` (a worker writes
\* at most MaxLen characters and MaxStderr chunks, so its data events end).
SpecOneFair == SpecOne /\ WF_vars(NextOne)

\* ------------------------------------------------------------ the upload page
\* page.tsx:30-36: handleFileUpload up to its first await. It shows the spinner,
\* clears the displayed text and sends the file.
handleFileUpload(k) ==
    /\ isProcessing' = TRUE
    /\ extractedTextState' = ""
    /\ uploads' = [uploads EXCEPT ![k].st = "fetch"]

\* page.tsx:13-19: the dropzone calls onDrop with the files it accepted. The
\* zone takes no pointer input while isProcessing (page.tsx:107) but keeps
\* keyboard focus, and Enter or Space on it opens the file dialog.
onDrop(accepted, pointer) ==
    /\ drops < MaxDrops
    /\ pointer => ~isProcessing
    /\ drops' = drops + 1
    /\ IF accepted
       THEN /\ uploadedFile' = drops + 1
            /\ handleFileUpload(drops + 1)
       ELSE UNCHANGED <<uploadedFile, isProcessing, extractedTextState, uploads>>
    /\ UNCHANGED alerts
    /\ UNCHANGED routeVars

\* page.tsx:38-47: the response of upload k arrives; either branch awaits
\* response.json().
FetchResolved(k, ok) ==
    /\ uploads[k].st = "fetch"
    /\ uploads' = [uploads EXCEPT ![k].st = "json", ![k].ok = ok]
    /\ UNCHANGED <<uploadedFile, isProcessing, extractedTextState, drops, alerts>>
    /\ UNCHANGED routeVars

\* page.tsx:47: the message of an error response.
ErrorMessage == "Error: message"
\* page.tsx:52
TryAgain == "Error uploading file. Please try again."

\* page.tsx:50-55: catch and finally.
UploadFailed(k) ==
    /\ alerts' = Append(alerts, TryAgain)
    /\ isProcessing' = FALSE
    /\ uploads' = [uploads EXCEPT ![k].st = "done"]
    /\ UNCHANGED <<uploadedFile, extractedTextState, drops>>
    /\ UNCHANGED routeVars

\* page.tsx:38-41, 50-55: fetch rejects (the network failed).
FetchRejected(k) ==
    /\ uploads[k].st = "fetch"
    /\ UploadFailed(k)

\* page.tsx:43-49, 53-55: the body of the response is parsed. An ok response
\* carries the text, which is displayed; any other carries a message, which is
\* alerted. Then finally hides the spinner.
JsonResolved(k, text) ==
    /\ uploads[k].st = "json"
    /\ IF uploads[k].ok
       THEN /\ extractedTextState' = text
            /\ uploads' = [uploads EXCEPT ![k].st = "done", ![k].text = text]
            /\ UNCHANGED alerts
       ELSE /\ alerts' = Append(alerts, ErrorMessage)
            /\ uploads' = [uploads EXCEPT ![k].st = "done"]
            /\ UNCHANGED extractedTextState
    /\ isProcessing' = FALSE
    /\ UNCHANGED <<uploadedFile, drops>>
    /\ UNCHANGED routeVars

\* page.tsx:44, 47, 50-55: response.json() rejects (the body is not JSON).
JsonRejected(k) ==
    /\ uploads[k].st = "json"
    /\ UploadFailed(k)

NextPage ==
    \/ \E accepted \in BOOLEAN, pointer \in BOOLEAN : onDrop(accepted, pointer)
    \/ \E k \in Drops, ok \in BOOLEAN : FetchResolved(k, ok)
    \/ \E k \in Drops : FetchRejected(k)
    \/ \E k \in Drops, text \in PageTexts : JsonResolved(k, text)
    \/ \E k \in Drops : JsonRejected(k)

\* The upload page on its own: the user drops up to MaxDrops files and the
\* responses arrive in any order.
SpecPage == Init /\ [][NextPage]_vars


\* ------------------------------------------------------------------ claims
\* The request has answered.
Responded(r) == response[r] # NoResponse

\* The extraction of request r failed: spawn threw, the process emitted
\* `error`, or it closed with a code other than 0.
ExtractionFailed(r) ==
    \/ python[r].st \in {"throw", "errored"}
    \/ python[r].st = "closed" /\ python[r].code # 0

\* t is s without its leading and trailing whitespace.
IsTrimOf(t, s) ==
    \E i \in 1..(Len(s) + 1), j \in 0..Len(s) :
        /\ t = SubSeq(s, i, j)
        /\ \A k \in 1..Len(s) : (k < i \/ k > j) => s[k] \in Whitespace
        /\ t # <<>> => t[1] \notin Whitespace /\ t[Len(t)] \notin Whitespace

\* C1 (as claimed): a request whose temp file was written has called unlink
\* exactly once when it answers, on every exit path.
C1_ExactlyOneUnlink ==
    \A r \in Reqs :
        Responded(r) /\ calls[r].written = 1 => calls[r].unlink = 1

\* C2 (as claimed): once the extraction of a request has succeeded, whatever
\* the anonymization worker does, preprocessText completes with a value: POST
\* never leaves line 40 without a preprocessed text.
C2_AnonymizationNeverFatal ==
    \A r \in Reqs :
        extractedText[r] # NoText /\ pc[r] # "preprocess"
            => preprocessedText[r] # NoText

\* C3: a 200 response carries the preprocessed and the extracted text; the
\* extracted text is the extraction worker's trimmed stdout; the preprocessed
\* text is the anonymization worker's trimmed stdout when it closes with code
\* 0, and the extracted text itself when it closes with another code or emits
\* `error`.
C3_ProcessedText ==
    /\ [](\A r \in Reqs :
            response[r].status = 200 =>
                /\ response[r].text = preprocessedText[r]
                /\ response[r].rawText = extractedText[r])
    /\ [][\A r \in Reqs :
            /\ extractedText[r] = NoText /\ extractedText'[r] # NoText
                  => IsTrimOf(extractedText'[r], python[r].output)
            /\ anon[r].st = "running" /\ anon'[r].st = "closed"
                  => IF anon'[r].code = 0
                     THEN IsTrimOf(preprocessedText'[r], anon[r].output)
                     ELSE preprocessedText'[r] = extractedText[r]
            /\ anon[r].st = "running" /\ anon'[r].st = "errored"
                  => preprocessedText'[r] = extractedText[r]]_vars

\* C3 witness: a 200 response whose text is the worker's output, not the raw text.
C3_Witness ==
    \E r \in Reqs :
        /\ response[r].status = 200
        /\ anon[r].st = "closed" /\ anon[r].code = 0
        /\ response[r].text # response[r].rawText

\* The upload of request r passed validation: POST went on to line 31.
Validated(r) == pc[r] = "arrayBuffer" \/ calls[r].writeFile > 0

\* Request r received an upload (formData() did not throw).
Received(r) == pc[r] # "start" /\ ~(pc[r] = "done" /\ calls[r] = NoCalls /\ response[r].status = 500)

\* C4: an upload passes validation iff its declared type is application/pdf
\* and its size is at most 5 * 1024 * 1024 bytes; every other upload is
\* answered 400.
C4_Validation ==
    \A r \in Reqs :
        Received(r) =>
            LET good == /\ file[r].present
                        /\ file[r].type = "application/pdf"
                        /\ file[r].size <= 5 * 1024 * 1024
            IN  /\ Validated(r) <=> good
                /\ ~good => response[r].status = 400

\* C4 witness: a PDF of exactly 5 * 1024 * 1024 bytes passed validation.
C4_Witness ==
    \E r \in Reqs :
        /\ file[r].present /\ file[r].type = "application/pdf"
        /\ file[r].size = 5 * 1024 * 1024
        /\ Validated(r)

\* C5: a request whose upload is missing, of another declared type than
\* application/pdf or larger than 5 MiB never calls writeFile, unlink or spawn,
\* and never has a temp path or a child process.
C5_RejectedNoSideEffects ==
    \A r \in Reqs :
        (~file[r].present \/ file[r].type # "application/pdf"
            \/ file[r].size > 5 * 1024 * 1024)
        => /\ calls[r] = NoCalls
           /\ tempFilePath[r] = NoPath
           /\ python[r] = NoProc /\ anon[r] = NoProc

\* C5 witness: a request answered 400 for its declared type.
C5_Witness ==
    \E r \in Reqs :
        /\ response[r].status = 400
        /\ file[r].present /\ file[r].type = "application/msword"

\* C6 (as claimed): a request whose extraction failed answers 500 with a
\* message, has not spawned the anonymization worker, and its temp file does
\* not exist when it answers.
C6_ExtractionFailureClean ==
    \A r \in Reqs :
        ExtractionFailed(r) /\ Responded(r) =>
            /\ response[r] = ErrorResponse
            /\ calls[r].spawnAnon = 0
            /\ fs[tempFilePath[r]] = NoFile

\* C6 (amended): a request whose extraction failed calls unlink on its temp
\* file exactly once and never spawns the anonymization worker; it answers 500
\* with a message; and when that unlink succeeds the file is gone at that
\* moment (when it fails, the answer is the same and the file may remain).
C6_ExtractionFailureFatal ==
    /\ [](\A r \in Reqs :
            ExtractionFailed(r) =>
                /\ calls[r].spawnAnon = 0 /\ anon[r] = NoProc
                /\ pc[r] \in {"unlink61", "done"}
                /\ Responded(r) => response[r] = ErrorResponse /\ calls[r].unlink = 1)
    /\ [][\A r \in Reqs :
            pc[r] = "unlink61" /\ pc'[r] = "done" /\ caught'[r].kind # "unlink"
                => fs'[tempFilePath[r]] = NoFile]_vars

\* C6 witness: an extraction failed, the request answered, the file is gone.
C6_Witness ==
    \E r \in Reqs :
        /\ ExtractionFailed(r) /\ Responded(r)
        /\ python[r].st = "closed" /\ python[r].code = 1
        /\ fs[tempFilePath[r]] = NoFile

\* Request r holds a temp path and has not answered yet.
InFlight(r) == tempFilePath[r] # NoPath /\ ~Responded(r)

\* C7 (as claimed): requests in flight together that upload files of the same
\* name hold different temp paths.
C7_DistinctPaths ==
    \A r1, r2 \in Reqs :
        /\ r1 # r2
        /\ InFlight(r1) /\ InFlight(r2)
        /\ file[r1].name = file[r2].name
        => tempFilePath[r1] # tempFilePath[r2]

\* C8 (as claimed): from its temp write until its own release, the file at a
\* request's path exists and holds the bytes that request uploaded, and its
\* extraction worker reads those bytes only.
C8_NoCrossContamination ==
    \A r \in Reqs :
        /\ pc[r] \in {"extract", "preprocess", "unlink50"}
              => fs[tempFilePath[r]] = file[r].content
        /\ python[r].seen # Unread => python[r].seen = <<file[r].content>>

\* C9 (as claimed): a failing delete changes no response: a request whose
\* extraction and anonymization completed answers 200.
C9_DeleteFailureNotFatal ==
    \A r \in Reqs :
        preprocessedText[r] # NoText /\ Responded(r) => response[r].status = 200

\* C10 (as claimed): in a 200 response, text is empty only if rawText is empty.
C10_TextEmptyOnlyIfRawEmpty ==
    \A r \in Reqs :
        response[r].status = 200 /\ response[r].text = <<>>
            => response[r].rawText = <<>>

\* C10 (amended): in a 200 response, text is empty only if rawText is empty or
\* the anonymization worker closed with code 0 (its stdout was empty or
\* whitespace only).
C10_TextEmptyOnlyIfRawOrOutputEmpty ==
    \A r \in Reqs :
        response[r].status = 200 /\ response[r].text = <<>>
            => \/ response[r].rawText = <<>>
               \/ anon[r].st = "closed" /\ anon[r].code = 0

\* C10 witness: a 200 response with an empty text and a raw text that is not.
C10_Witness ==
    \E r \in Reqs :
        /\ response[r].status = 200
        /\ response[r].text = <<>>
        /\ response[r].rawText # <<>>

\* A child process that was started and has not emitted `close` yet.
Alive(p) == p.st \in {"running", "errored"}

\* C11: within one request the extraction worker is spawned at most once, the
\* anonymization worker at most once and only after the extraction worker
\* closed with code 0, and the two are never alive together.
C11_SequentialWorkers ==
    \A r \in Reqs :
        /\ calls[r].spawnExtract <= 1
        /\ calls[r].spawnAnon <= 1
        /\ calls[r].spawnAnon = 1 =>
              /\ calls[r].spawnExtract = 1
              /\ python[r].st = "closed" /\ python[r].code = 0
        /\ anon[r].st # "none" => calls[r].spawnAnon = 1
        /\ ~(Alive(python[r]) /\ Alive(anon[r]))

\* C11 witness: both workers were spawned, and the second is running.
C11_Witness ==
    \E r \in Reqs :
        /\ calls[r].spawnExtract = 1 /\ calls[r].spawnAnon = 1
        /\ anon[r].st = "running"

\* extractTextFromFile of request r rejects in this step: POST enters its
\* inner catch without an extracted text.
ExtractRejects(r) ==
    /\ extractedText'[r] = NoText
    /\ pc[r] \in {"writeFile", "extract"} /\ pc'[r] = "unlink61"
    /\ calls'[r].spawnAnon = 0

\* C12: a worker invocation succeeds iff the process closes with code 0,
\* whatever its stdout and stderr, and hands on its stdout without leading and
\* trailing whitespace; extractTextFromFile rejects when the process closes
\* with another code (1, or null after a signal), emits `error`, or cannot be
\* spawned.
C12_WorkerOutcome ==
    [][\A r \in Reqs :
        /\ python[r].st = "running" /\ python'[r].st = "closed"
              => IF python'[r].code = 0
                 THEN /\ extractedText'[r] # NoText
                      /\ IsTrimOf(extractedText'[r], python[r].output)
                 ELSE /\ ExtractRejects(r)
                      /\ caught'[r] = [kind |-> "Python script failed: ",
                                       detail |-> python[r].error]
        /\ python[r].st = "running" /\ python'[r].st = "errored" => ExtractRejects(r)
        /\ python[r].st = "none" /\ python'[r].st = "throw" => ExtractRejects(r)
        /\ anon[r].st = "running" /\ anon'[r].st = "closed" /\ anon'[r].code = 0
              => IsTrimOf(preprocessedText'[r], anon[r].output)]_vars

\* C12 witness: the extraction worker closed with code 0 and an empty stdout,
\* and the anonymization worker was called with the empty text.
C12_Witness ==
    \E r \in Reqs :
        /\ python[r].st = "closed" /\ python[r].code = 0
        /\ extractedText[r] = <<>>
        /\ pc[r] = "preprocess"

\* C13: every 500 response is the same fixed body, whatever failed (so any two
\* of them are identical), and the error that caused it is in the server log.
C13_GenericErrorBody ==
    /\ \A r \in Reqs :
          response[r].status = 500 =>
              /\ response[r] = [status |-> 500,
                                message |-> "Error processing file. Please try again."]
              /\ [level |-> "error", msg |-> "Error processing file:",
                  detail |-> <<caught[r].kind>> \o caught[r].detail] \in log[r]
    /\ \A r1, r2 \in Reqs :
          response[r1].status = 500 /\ response[r2].status = 500
              => response[r1] = response[r2]

\* C13 witness: a 500 response after the extraction worker wrote a diagnostic
\* to stderr and exited with a non-zero code.
C13_Witness ==
    \E r \in Reqs :
        /\ response[r].status = 500
        /\ caught[r] = [kind |-> "Python script failed: ", detail |-> <<StderrChunk>>]

\* The writeFile call of request r failed.
WriteFailed(r) ==
    calls[r].writeFile = 1 /\ calls[r].written = 0 /\ pc[r] # "writeFile"

\* C14: a request whose writeFile failed has answered 500, has spawned neither
\* worker and has not called unlink.
C14_WriteFailure ==
    \A r \in Reqs :
        WriteFailed(r) =>
            /\ pc[r] = "done"
            /\ response[r].status = 500
            /\ calls[r].spawnExtract = 0 /\ calls[r].spawnAnon = 0
            /\ python[r] = NoProc /\ anon[r] = NoProc
            /\ calls[r].unlink = 0

\* C14 witness: a valid upload whose write failed and that was answered.
C14_Witness ==
    \E r \in Reqs :
        /\ WriteFailed(r) /\ Responded(r)
        /\ file[r].type = "application/pdf"
        /\ caught[r].kind = "writeFile"

\* The fallback warnings request r has logged.
Warnings(r) == {e \in log[r] : e.level = "warn"}

\* The anonymization worker of request r failed: it emitted `error`, or
\* closed with a code other than 0.
AnonFailed(r) ==
    \/ anon[r].st = "errored"
    \/ anon[r].st = "closed" /\ anon[r].code # 0

\* C15: once preprocessText has fallen back to the raw text because the worker
\* failed, a warning is in the log, so it is there before the response; and a
\* request whose worker has not failed has logged no warning.
C15_FallbackLogged ==
    \A r \in Reqs :
        /\ AnonFailed(r) =>
              /\ preprocessedText[r] = extractedText[r]
              /\ Warnings(r) # {}
        /\ response[r].status = 200 /\ AnonFailed(r) => Warnings(r) # {}
        /\ ~AnonFailed(r) => Warnings(r) = {}

\* C15 witness: a 200 response carrying the raw text after the worker exited
\* with code 1, and one warning in the log.
C15_Witness ==
    \E r \in Reqs :
        /\ response[r].status = 200
        /\ anon[r].st = "closed" /\ anon[r].code = 1
        /\ response[r].text = response[r].rawText
        /\ Cardinality(Warnings(r)) = 1

\* C16 (as claimed): an upload of a DOC or DOCX file of at most 5 MiB is
\* accepted and processed: it is not answered 400.
C16_WordDocumentsAccepted ==
    \A r \in Reqs :
        /\ file[r].present
        /\ file[r].type \in {DocType, DocxType}
        /\ file[r].size <= 5 * 1024 * 1024
        => response[r].status # 400

\* What POST of request r holds: everything a settled promise decides.
Stage(r) ==
    <<pc[r], extractedText[r], preprocessedText[r], caught[r], calls[r], response[r]>>

\* C17: every request that arrived ends with a response, which is a 400, 500
\* or 200; a response once given is never replaced; and the `close` of a
\* worker that emitted `error` before changes nothing POST holds.
C17_OneResponse ==
    /\ \A r \in Reqs : (pc[r] # "start") ~> (pc[r] = "done" /\ Responded(r))
    /\ [](\A r \in Reqs :
            /\ Responded(r) <=> pc[r] = "done"
            /\ Responded(r) => response[r].status \in {200, 400, 500})
    /\ [][\A r \in Reqs :
            /\ Responded(r) => response'[r] = response[r]
            /\ python[r].st = "errored" /\ python'[r].st = "closed"
                  => Stage(r)' = Stage(r)
            /\ anon[r].st = "errored" /\ anon'[r].st = "closed"
                  => Stage(r)' = Stage(r)]_vars

\* C17 witness: a request whose extraction worker emitted `error` and then
\* `close`, answered once with 500.
C17_Witness ==
    \E r \in Reqs :
        /\ python[r].st = "closed" /\ python[r].code = SpawnErrno
        /\ pc[r] = "done" /\ response[r].status = 500

\* An upload whose response has not been handled yet.
UploadInFlight(k) == uploads[k].st \in {"fetch", "json"}

\* C18: on the upload page the displayed text is empty or is the text the
\* response for the most recently dropped file (uploadedFile) carried, and
\* isProcessing is true whenever some upload is still in flight. As claimed:
\* it fails when a second file is chosen before the first response arrives.
C18_LatestFileShown ==
    /\ \/ extractedTextState = ""
       \/ /\ uploadedFile # NoUpload
          /\ uploads[uploadedFile].st = "done"
          /\ uploads[uploadedFile].ok
          /\ extractedTextState = uploads[uploadedFile].text
    /\ (\E k \in Drops : UploadInFlight(k)) => isProcessing
====
